---- MODULE Spec2Model ----
(***************************************************************************)
(* Model of margies-travel/app.py: module start-up (configuration check),  *)
(* the "/" route, and the "/search" route with its search_query gateway.   *)
(* Request strings that the code trims are sequences of one-character      *)
(* strings; strings that the code only compares or interpolates are TLA+   *)
(* strings.  A query parameter or environment variable that may be absent  *)
(* is a record [present, val].                                             *)
(***************************************************************************)
EXTENDS Integers, Sequences, FiniteSets, TLC

VARIABLES
    env,                \* the process environment read by os.getenv
    search_endpoint,    \* module globals set at start-up
    search_key,
    search_index,
    proc,               \* "starting" | "serving" | "crashed"
    pc,                 \* position of the one request being handled
    route,              \* "none" | "home" | "search"
    req,                \* request.args of the request being handled
    search_text,        \* locals of search()
    filter_expression,
    sort_expression,
    results,            \* "none" | "paged" : the object search_query returned
    gatewayCalls,       \* invocations of search_query in this request
    gatewayArgs,        \* arguments of the last invocation of search_query
    remoteCalls,        \* invocations of search_client.search in this request
    remoteArgs,         \* arguments of the last search_client.search
    iterations,         \* times the result set was iterated in this request
    raised,             \* the exception in flight / bound to `error`
    remoteFailure,      \* the exception search_client.search raised, if any
    consumeFailure,     \* the exception raised while iterating results, if any
    validated,          \* line 75 has accepted the search term
    printed,            \* lines written by print() in this request
    outcome,            \* how the handling of the request ended
    page                \* the page render_template produced

vars == << env, search_endpoint, search_key, search_index, proc, pc, route,
           req, search_text, filter_expression, sort_expression, results,
           gatewayCalls, gatewayArgs, remoteCalls, remoteArgs, iterations,
           raised, remoteFailure, consumeFailure, validated, printed,
           outcome, page >>

----------------------------------------------------------------------------
(* Bounds and input alphabets *)

MaxSearchLen == 3

Whitespace == {" ", "\t"}

Chars == Whitespace \cup {"a"}

RECURSIVE SeqsUpTo(_)
SeqsUpTo(n) ==
    IF n = 0 THEN {<< >>}
    ELSE LET shorter == SeqsUpTo(n - 1)
         IN  shorter \cup {Append(s, c) : s \in {t \in shorter : Len(t) = n - 1}, c \in Chars}

Absent(v) == [present |-> FALSE, val |-> v]

Given(v) == [present |-> TRUE, val |-> v]

SearchParams == {Absent(<< >>)} \cup {Given(s) : s \in SeqsUpTo(MaxSearchLen)}

FacetParams == {Absent("")} \cup {Given(f) : f \in {"", "jsmith", " a ", "O'Neil"}}

SortParams ==
    {Absent("")} \cup
    {Given(s) : s \in {"relevance", "file_name", "size", "date", "sentiment",
                       "", "Size", "DATE", "name"}}

EnvValues == {Absent(""), Given(""), Given("x")}

NoEx == [kind |-> "none", msg |-> ""]

RemoteErrors ==
    { [kind |-> "ServiceRequestError", msg |-> "connection failed"],
      [kind |-> "ClientAuthenticationError", msg |-> "invalid api key"],
      [kind |-> "HttpResponseError", msg |-> "invalid filter expression"] }

ClientErrors == { [kind |-> "ValueError", msg |-> "non-https endpoint"] }

ConsumeErrors ==
    { [kind |-> "HttpResponseError", msg |-> "invalid order by"],
      [kind |-> "ServiceResponseError", msg |-> "connection reset"] }

TemplateErrors == { [kind |-> "TemplateError", msg |-> "template failed"] }

NoArgs == [search_text |-> << >>, filter_by |-> Absent(""), sort_order |-> ""]

NoPage == [template |-> "none", error_message |-> "", search_terms |-> << >>,
           search_results |-> "none"]

EmptyTermMessage == "Search term cannot be empty."

----------------------------------------------------------------------------
(* Pure helpers, computed as the code computes them *)

\* os.getenv(name): the value, or None
Getenv(name) == env[name]

\* truthiness of an os.getenv result: None and "" are falsy
Truthy(v) == v.present /\ v.val # ""

\* a start-up check that accepts the configuration when any one value is set
AnyConfigured(e, k, i) == Truthy(e) \/ Truthy(k) \/ Truthy(i)

\* all([search_endpoint, search_key, search_index])
AllConfigured(e, k, i) == Truthy(e) /\ Truthy(k) /\ Truthy(i)

\* request.args.get(name, default)
ArgsGet(param, default) == IF param.present THEN param.val ELSE default

RECURSIVE LStrip(_)
LStrip(s) ==
    IF s = << >> THEN << >>
    ELSE IF Head(s) \in Whitespace THEN LStrip(Tail(s)) ELSE s

RECURSIVE RStrip(_)
RStrip(s) ==
    IF s = << >> THEN << >>
    ELSE IF s[Len(s)] \in Whitespace THEN RStrip(SubSeq(s, 1, Len(s) - 1)) ELSE s

\* trimming that forgets the trailing whitespace
StripLeadingOnly(s) == LStrip(s)

\* str.strip()
Strip(s) == RStrip(LStrip(s))

\* a facet test on the value's truthiness instead of the key's presence
FilterExpressionIfTruthy(facet) ==
    IF facet.present /\ facet.val # ""
    THEN Given("metadata_author eq '" \o facet.val \o "'")
    ELSE Absent("")

\* lines 79-81
FilterExpression(facet) ==
    IF facet.present
    THEN Given("metadata_author eq '" \o facet.val \o "'")
    ELSE Absent("")

\* a sort lookup that ignores the case of the parameter
SortExpressionIgnoringCase(sort) ==
    LET sort_field == ArgsGet(sort, "relevance")
    IN  IF sort_field \in {"file_name"} THEN "metadata_storage_name asc"
        ELSE IF sort_field \in {"size", "Size"} THEN "metadata_storage_size desc"
        ELSE IF sort_field \in {"date", "DATE"} THEN "metadata_storage_last_modified desc"
        ELSE IF sort_field \in {"sentiment"} THEN "sentiment desc"
        ELSE "search.score()"

\* lines 84-93
SortExpression(sort) ==
    LET sort_field == ArgsGet(sort, "relevance")
    IN  IF sort_field = "file_name" THEN "metadata_storage_name asc"
        ELSE IF sort_field = "size" THEN "metadata_storage_size desc"
        ELSE IF sort_field = "date" THEN "metadata_storage_last_modified desc"
        ELSE IF sort_field = "sentiment" THEN "sentiment desc"
        ELSE "search.score()"

\* an except clause that raises a generic error carrying the message
RaiseSearchFailed(ex) == [kind |-> "SearchFailed", msg |-> ex.msg]

\* the bare `raise` of line 56: the exception being handled, unchanged
Reraise(ex) == ex

\* str(error)
StrOf(ex) == ex.msg

----------------------------------------------------------------------------
(* State machine *)

Init ==
    /\ env \in [{"SEARCH_SERVICE_ENDPOINT", "SEARCH_SERVICE_QUERY_KEY",
                 "SEARCH_INDEX_NAME"} -> EnvValues]
    /\ search_endpoint = Absent("")
    /\ search_key = Absent("")
    /\ search_index = Absent("")
    /\ proc = "starting"
    /\ pc = "idle"
    /\ route = "none"
    /\ req = [search |-> Absent(<< >>), facet |-> Absent(""), sort |-> Absent("")]
    /\ search_text = << >>
    /\ filter_expression = Absent("")
    /\ sort_expression = ""
    /\ results = "none"
    /\ gatewayCalls = 0
    /\ gatewayArgs = NoArgs
    /\ remoteCalls = 0
    /\ remoteArgs = NoArgs
    /\ iterations = 0
    /\ raised = NoEx
    /\ remoteFailure = NoEx
    /\ consumeFailure = NoEx
    /\ validated = FALSE
    /\ printed = {}
    /\ outcome = "none"
    /\ page = NoPage

requestVars == << req, search_text, filter_expression, sort_expression, results,
                  gatewayCalls, gatewayArgs, remoteCalls, remoteArgs, iterations,
                  raised, remoteFailure, consumeFailure, validated, printed,
                  outcome, page >>

configVars == << env, search_endpoint, search_key, search_index, proc >>

\* lines 13-20: load the configuration, refuse to start when a value is missing
Startup ==
    /\ proc = "starting"
    /\ search_endpoint' = Getenv("SEARCH_SERVICE_ENDPOINT")
    /\ search_key' = Getenv("SEARCH_SERVICE_QUERY_KEY")
    /\ search_index' = Getenv("SEARCH_INDEX_NAME")
    /\ proc' = IF AllConfigured(search_endpoint', search_key', search_index')
               THEN "serving" ELSE "crashed"
    /\ UNCHANGED << env, pc, route >>
    /\ UNCHANGED requestVars

\* a fresh request: every request-scoped value starts anew
FreshRequest(r, args) ==
    /\ route' = r
    /\ req' = args
    /\ search_text' = << >>
    /\ filter_expression' = Absent("")
    /\ sort_expression' = ""
    /\ results' = "none"
    /\ gatewayCalls' = 0
    /\ gatewayArgs' = NoArgs
    /\ remoteCalls' = 0
    /\ remoteArgs' = NoArgs
    /\ iterations' = 0
    /\ raised' = NoEx
    /\ remoteFailure' = NoEx
    /\ consumeFailure' = NoEx
    /\ validated' = FALSE
    /\ printed' = {}
    /\ page' = NoPage

\* lines 59-64: the home route renders default.html, with no try around it
Home ==
    /\ proc = "serving"
    /\ pc = "idle"
    /\ FreshRequest("home", [search |-> Absent(<< >>), facet |-> Absent(""),
                             sort |-> Absent("")])
    /\ \E ok \in BOOLEAN :
          outcome' = IF ok THEN "home_page" ELSE "unhandled_fault"
    /\ pc' = "done"
    /\ UNCHANGED configVars

\* line 67: Flask dispatches GET /search to search()
ReceiveSearch ==
    /\ proc = "serving"
    /\ pc = "idle"
    /\ \E s \in SearchParams, f \in FacetParams, so \in SortParams :
          FreshRequest("search", [search |-> s, facet |-> f, sort |-> so])
    /\ outcome' = "none"
    /\ pc' = "l74"
    /\ UNCHANGED configVars

\* lines 74-75: read and trim the search term, reject an empty one
ReadSearchTerm ==
    /\ pc = "l74"
    /\ search_text' = Strip(ArgsGet(req.search, << >>))
    /\ validated' = (search_text' # << >>)
    /\ pc' = IF search_text' = << >> THEN "l76" ELSE "l78"
    /\ UNCHANGED configVars
    /\ UNCHANGED << route, req, filter_expression, sort_expression, results,
                    gatewayCalls, gatewayArgs, remoteCalls, remoteArgs, iterations,
                    raised, remoteFailure, consumeFailure, printed, outcome, page >>

\* line 76: render the error page with the fixed message (inside the try)
RenderEmptyTermError ==
    /\ pc = "l76"
    /\ \/ /\ page' = [template |-> "error.html", error_message |-> EmptyTermMessage,
                      search_terms |-> << >>, search_results |-> "none"]
          /\ outcome' = "error_page"
          /\ pc' = "done"
          /\ UNCHANGED raised
       \/ /\ \E ex \in TemplateErrors : raised' = ex
          /\ pc' = "l101"
          /\ UNCHANGED << page, outcome >>
    /\ UNCHANGED configVars
    /\ UNCHANGED << route, req, search_text, filter_expression, sort_expression,
                    results, gatewayCalls, gatewayArgs, remoteCalls, remoteArgs,
                    iterations, remoteFailure, consumeFailure, validated, printed >>

\* lines 78-93: build the filter and the sort expression
Translate ==
    /\ pc = "l78"
    /\ filter_expression' = FilterExpression(req.facet)
    /\ sort_expression' = SortExpression(req.sort)
    /\ pc' = "l96"
    /\ UNCHANGED configVars
    /\ UNCHANGED << route, req, search_text, results, gatewayCalls, gatewayArgs,
                    remoteCalls, remoteArgs, iterations, raised, remoteFailure,
                    consumeFailure, validated, printed, outcome, page >>

\* a gateway that submits the query a second time when the first attempt fails
CallSearchQueryRetrying ==
    /\ pc = "l96"
    /\ gatewayCalls' = gatewayCalls + 1
    /\ gatewayArgs' = [search_text |-> search_text, filter_by |-> filter_expression,
                       sort_order |-> sort_expression]
    /\ \/ /\ remoteCalls' = remoteCalls + 1
          /\ remoteArgs' = gatewayArgs'
          /\ results' = "paged"
          /\ pc' = "l99"
          /\ UNCHANGED << raised, remoteFailure >>
       \/ /\ remoteCalls' = remoteCalls + 2
          /\ remoteArgs' = gatewayArgs'
          /\ \E ex \in RemoteErrors :
                /\ raised' = ex
                /\ remoteFailure' = ex
          /\ pc' = "l53"
          /\ UNCHANGED results
       \/ /\ \E ex \in ClientErrors : raised' = ex
          /\ pc' = "l53"
          /\ UNCHANGED << remoteCalls, remoteArgs, results, remoteFailure >>
    /\ UNCHANGED configVars
    /\ UNCHANGED << route, req, search_text, filter_expression, sort_expression,
                    iterations, consumeFailure, validated, printed, outcome, page >>

\* line 96 and lines 31-51: call search_query, which builds the client (lines
\* 33-34, which may raise before anything is sent) and submits the query once
CallSearchQuery ==
    /\ pc = "l96"
    /\ gatewayCalls' = gatewayCalls + 1
    /\ gatewayArgs' = [search_text |-> search_text, filter_by |-> filter_expression,
                       sort_order |-> sort_expression]
    /\ \/ /\ remoteCalls' = remoteCalls + 1
          /\ remoteArgs' = gatewayArgs'
          /\ results' = "paged"
          /\ pc' = "l99"
          /\ UNCHANGED << raised, remoteFailure >>
       \/ /\ remoteCalls' = remoteCalls + 1
          /\ remoteArgs' = gatewayArgs'
          /\ \E ex \in RemoteErrors :
                /\ raised' = ex
                /\ remoteFailure' = ex
          /\ pc' = "l53"
          /\ UNCHANGED results
       \/ /\ \E ex \in ClientErrors : raised' = ex
          /\ pc' = "l53"
          /\ UNCHANGED << remoteCalls, remoteArgs, results, remoteFailure >>
    /\ UNCHANGED configVars
    /\ UNCHANGED << route, req, search_text, filter_expression, sort_expression,
                    iterations, consumeFailure, validated, printed, outcome, page >>

\* lines 53-56: search_query logs the failure and re-raises it
SearchQueryExcept ==
    /\ pc = "l53"
    /\ printed' = printed \cup {"Error querying Azure Search: " \o StrOf(raised)}
    /\ raised' = Reraise(raised)
    /\ pc' = "l101"
    /\ UNCHANGED configVars
    /\ UNCHANGED << route, req, search_text, filter_expression, sort_expression,
                    results, gatewayCalls, gatewayArgs, remoteCalls, remoteArgs,
                    iterations, remoteFailure, consumeFailure, validated, outcome,
                    page >>

\* line 99: render search.html, which iterates the lazily fetched result set
RenderResults ==
    /\ pc = "l99"
    /\ iterations' = iterations + 1
    /\ \/ /\ page' = [template |-> "search.html", error_message |-> "",
                      search_terms |-> search_text, search_results |-> results]
          /\ outcome' = "results_page"
          /\ pc' = "done"
          /\ UNCHANGED << raised, consumeFailure >>
       \/ /\ \E ex \in ConsumeErrors :
                /\ raised' = ex
                /\ consumeFailure' = ex
          /\ pc' = "l101"
          /\ UNCHANGED << page, outcome >>
       \/ /\ \E ex \in TemplateErrors : raised' = ex
          /\ pc' = "l101"
          /\ UNCHANGED << page, outcome, consumeFailure >>
    /\ UNCHANGED configVars
    /\ UNCHANGED << route, req, search_text, filter_expression, sort_expression,
                    results, gatewayCalls, gatewayArgs, remoteCalls, remoteArgs,
                    remoteFailure, validated, printed >>

\* lines 101-104: log the error and render the error page with str(error);
\* this render_template is outside the try, so its failure leaves the handler
SearchExcept ==
    /\ pc = "l101"
    /\ printed' = printed \cup {"Error during search: " \o StrOf(raised)}
    /\ \/ /\ page' = [template |-> "error.html", error_message |-> StrOf(raised),
                      search_terms |-> << >>, search_results |-> "none"]
          /\ outcome' = "error_page"
          /\ UNCHANGED raised
       \/ /\ \E ex \in TemplateErrors : raised' = ex
          /\ outcome' = "unhandled_fault"
          /\ UNCHANGED page
    /\ pc' = "done"
    /\ UNCHANGED configVars
    /\ UNCHANGED << route, req, search_text, filter_expression, sort_expression,
                    results, gatewayCalls, gatewayArgs, remoteCalls, remoteArgs,
                    iterations, remoteFailure, consumeFailure, validated >>

\* Flask sends the response (or a 500 for an unhandled fault); the request's
\* locals are discarded and the handler is free for the next request
Respond ==
    /\ pc = "done"
    /\ FreshRequest("none", [search |-> Absent(<< >>), facet |-> Absent(""),
                             sort |-> Absent("")])
    /\ outcome' = "none"
    /\ pc' = "idle"
    /\ UNCHANGED configVars

Next ==
    \/ Startup
    \/ Home
    \/ ReceiveSearch
    \/ ReadSearchTerm
    \/ RenderEmptyTermError
    \/ Translate
    \/ CallSearchQuery
    \/ SearchQueryExcept
    \/ RenderResults
    \/ SearchExcept
    \/ Respond

Spec == Init /\ [][Next]_vars

----------------------------------------------------------------------------
(* Properties *)

\* C1: a /search request whose search parameter is absent, empty or only
\* whitespace ends in the error page with the message "Search term cannot be
\* empty." and makes no remote search call, whatever facet and sort are.
C1_EmptyTermFixedMessage ==
    (/\ route = "search"
     /\ pc = "done"
     /\ \/ ~req.search.present
        \/ \A k \in 1..Len(req.search.val) : req.search.val[k] \in Whitespace) =>
        /\ outcome = "error_page"
        /\ page.template = "error.html"
        /\ page.error_message = "Search term cannot be empty."
        /\ remoteCalls = 0

\* C2: the handling of every /search request ends in a rendered results page
\* or a rendered error page, never in an exception leaving the handler,
\* wherever a step of the handler fails.
C2_NoUnhandledFault ==
    (route = "search" /\ pc = "done") => outcome \in {"results_page", "error_page"}

\* C3: when the remote search call raises an error with message m, the
\* response is the error page whose error_message is m; no results page is
\* rendered and no fault leaves the handler.
C3_RemoteErrorShown ==
    (route = "search" /\ pc = "done" /\ remoteFailure # NoEx) =>
        /\ outcome = "error_page"
        /\ page.template = "error.html"
        /\ page.error_message = remoteFailure.msg

\* C4: the sort expression sent to the remote call is fixed by the sort
\* parameter alone: absent or relevance -> search.score(), file_name ->
\* metadata_storage_name asc, size -> metadata_storage_size desc, date ->
\* metadata_storage_last_modified desc, sentiment -> sentiment desc, and any
\* other value (the empty string, another spelling) -> search.score().
C4_SortTable ==
    LET sent == remoteArgs.sort_order
        expected ==
            IF ~req.sort.present THEN "search.score()"
            ELSE CASE req.sort.val = "relevance" -> "search.score()"
                   [] req.sort.val = "file_name" -> "metadata_storage_name asc"
                   [] req.sort.val = "size" -> "metadata_storage_size desc"
                   [] req.sort.val = "date" -> "metadata_storage_last_modified desc"
                   [] req.sort.val = "sentiment" -> "sentiment desc"
                   [] OTHER -> "search.score()"
    IN  /\ pc = "l96" => sort_expression = expected
        /\ remoteCalls >= 1 => sent = expected

C4_Witness ==
    /\ remoteCalls = 1
    /\ req.sort = Given("Size")
    /\ remoteArgs.sort_order = "search.score()"

\* C5: with a facet parameter of value f, taken verbatim, the filter passed to
\* the remote call is exactly metadata_author eq 'f'; without a facet parameter
\* no filter is passed; search and sort play no part.
C5_FacetFilter ==
    remoteCalls >= 1 =>
        LET sent == remoteArgs.filter_by
            f == req.facet.val
        IN  IF req.facet.present
            THEN /\ sent.present
                 /\ Len(sent.val) = Len(f) + 21
                 /\ f = "" => sent.val = "metadata_author eq ''"
                 /\ f = "jsmith" => sent.val = "metadata_author eq 'jsmith'"
                 /\ f = " a " => sent.val = "metadata_author eq ' a '"
                 /\ f = "O'Neil" => sent.val = "metadata_author eq 'O'Neil'"
            ELSE ~sent.present

C5_Witness ==
    /\ remoteCalls = 1
    /\ req.facet = Given("")
    /\ remoteArgs.filter_by = Given("metadata_author eq ''")

\* C6: when one of the three configuration values is missing the process
\* fails at start-up and never handles a request; whenever a request is being
\* handled the endpoint, the key and the index name are all present and
\* non-empty.
C6_ConfigurationFatalAtStartup ==
    LET names == {"SEARCH_SERVICE_ENDPOINT", "SEARCH_SERVICE_QUERY_KEY",
                  "SEARCH_INDEX_NAME"}
        missing == \E n \in names : ~env[n].present \/ env[n].val = ""
        handling == pc # "idle" \/ route # "none" \/ outcome # "none"
    IN  /\ proc # "starting" => (proc = "crashed" <=> missing)
        /\ proc # "serving" => ~handling
        /\ handling =>
              /\ search_endpoint.present /\ search_endpoint.val # ""
              /\ search_key.present /\ search_key.val # ""
              /\ search_index.present /\ search_index.val # ""

C6_Witness ==
    /\ proc = "serving"
    /\ route = "search"
    /\ pc = "l96"
    /\ search_endpoint = Given("x") /\ search_key = Given("x") /\ search_index = Given("x")

\* C7: for a request with a non-empty trimmed search term the gateway is
\* invoked exactly once, after the term was validated, with the search text,
\* filter and sort expression built for that request; nothing is retried, so a
\* failed remote call leaves the number of remote calls at one.
C7_GatewayCalledOnce ==
    /\ gatewayCalls <= 1
    /\ remoteCalls <= 1
    /\ gatewayCalls >= 1 =>
          /\ validated
          /\ req.search.present
          /\ gatewayArgs.search_text # << >>
          /\ gatewayArgs = [search_text |-> search_text,
                            filter_by |-> filter_expression,
                            sort_order |-> sort_expression]
          /\ gatewayArgs = [search_text |-> Strip(req.search.val),
                            filter_by |-> FilterExpression(req.facet),
                            sort_order |-> SortExpression(req.sort)]
    /\ remoteCalls >= 1 => gatewayCalls = 1 /\ remoteArgs = gatewayArgs
    /\ (route = "search" /\ pc \in {"l99", "l53", "l101", "done"} /\ validated) =>
          gatewayCalls = 1
    /\ results = "paged" => remoteCalls = 1
    /\ remoteFailure # NoEx => remoteCalls = 1
    /\ ~validated => gatewayCalls = 0 /\ remoteCalls = 0

C7_Witness ==
    /\ pc = "done"
    /\ remoteFailure # NoEx
    /\ gatewayCalls = 1
    /\ remoteCalls = 1

\* C8: the search text forwarded to the remote call is the search parameter
\* without its leading and trailing whitespace, the interior unchanged, and a
\* rendered results page echoes that same trimmed text as search_terms.
C8_TrimmedSearchText ==
    LET s == req.search.val
        t == remoteArgs.search_text
    IN  /\ remoteCalls >= 1 =>
              /\ t # << >>
              /\ t[1] \notin Whitespace
              /\ t[Len(t)] \notin Whitespace
              /\ \E i \in 0..Len(s) :
                    /\ i + Len(t) <= Len(s)
                    /\ t = SubSeq(s, i + 1, i + Len(t))
                    /\ \A k \in 1..Len(s) :
                          (k <= i \/ k > i + Len(t)) => s[k] \in Whitespace
        /\ outcome = "results_page" =>
              /\ remoteCalls >= 1
              /\ page.search_terms = t

C8_Witness ==
    /\ outcome = "results_page"
    /\ req.search = Given(<< " ", "a", "\t" >>)
    /\ remoteArgs.search_text = << "a" >>
    /\ page.search_terms = << "a" >>

\* C9 as stated: a failure of the remote query reaches the caller of the
\* gateway as one generic "search failed" error, whatever kind it was, carrying
\* the message of the underlying failure.
C9_GenericSearchFailed ==
    (pc = "l101" /\ remoteFailure # NoEx) =>
        /\ raised.kind = "SearchFailed"
        /\ raised.msg = remoteFailure.msg

\* C9 as amended: a failure of the remote query is logged by the gateway and
\* reaches the caller of the gateway as the very exception that was raised,
\* with its own kind and its own message.
C9_FailureReraisedUnchanged ==
    (pc = "l101" /\ remoteFailure # NoEx) =>
        /\ raised = remoteFailure
        /\ raised.kind \in {e.kind : e \in RemoteErrors}
        /\ ("Error querying Azure Search: " \o remoteFailure.msg) \in printed

C9_Witness ==
    /\ pc = "l101"
    /\ remoteFailure.kind = "ClientAuthenticationError"
    /\ raised = remoteFailure

\* C10: the result set is consumed after the gateway has returned; a failure
\* with message m during that consumption ends the request in the error page
\* with error_message m, not in a results page or a fault; the result set is
\* iterated at most once and no second remote query is made.
C10_ConsumeFailureShown ==
    /\ iterations <= 1
    /\ iterations >= 1 => results = "paged" /\ remoteCalls = 1
    /\ (route = "search" /\ pc = "done" /\ consumeFailure # NoEx) =>
          /\ outcome = "error_page"
          /\ page.template = "error.html"
          /\ page.error_message = consumeFailure.msg
          /\ remoteCalls = 1

====
